---- MODULE Spec2Model ----
(***************************************************************************)
(* Employee attendance backend: user directory, bearer-token sessions,     *)
(* role/team access control and the attendance ledger, as implemented by   *)
(* app/routes/*.py, app/services/user_service.py and app/utils/*.py.       *)
(*                                                                         *)
(* Datetimes are whole ticks (one tick = SecondsPerTick seconds), dates    *)
(* are day numbers.  An absent Optional value is None.                     *)
(***************************************************************************)
EXTENDS Integers, Sequences, FiniteSets, TLC

VARIABLES
    users,       \* users table: id -> row (ids are 1..Len(users), never deleted)
    sessions,    \* user_sessions table: sequence of rows, in insertion order
    attendance,  \* attendance table: set of rows
    nextAid,     \* next value of the attendance id sequence
    today,       \* date.today()
    now,         \* datetime.utcnow()
    resp,        \* the request handled last and the response it got
    inflight     \* requests that ran their existence check and did not commit yet

vars == <<users, sessions, attendance, nextAid, today, now, resp, inflight>>

----------------------------------------------------------------------------
(* Bounds of the model *)

MaxDay == 1
MaxNow == 1
MaxTime == 2
MaxOffset == 1
MaxRecords == 2
MaxUsers == 4
NumProcs == 2
MaxSessions == 5

----------------------------------------------------------------------------
(* Values *)

None == -1
NoStatus == "none"
NoRole == "none"

RoleEnum == {"project_manager", "supervisor", "driver", "delivery_associate", "sweeper"}

StatusEnum == {"present", "absent", "late", "half_day"}

ManagerRoles == {"project_manager", "supervisor"}

SecondsPerTick == 3600

\* Query(50, ...): the page size of a list request that names none
DefaultLimit == 50

Dates == 0..MaxDay

\* HTTP status codes the handlers answer with
OK == 200
BadRequest == 400
Unauthorized == 401
Forbidden == 403
NotFound == 404
ServerError == 500

\* Storage constraints the ORM models declare
UniqueUserDate == FALSE

UniqueEmail == TRUE

ManagerForeignKey == TRUE

----------------------------------------------------------------------------
(* Tokens and token validation *)

ExpiresMinutes == 7 * 24 * 60

create_access_token(u, clock) ==
    [user_id |-> u, role |-> users[u].role,
     exp |-> clock + (ExpiresMinutes * 60) \div SecondsPerTick, sig |-> "HS256"]

ForgedToken == [user_id |-> 1, role |-> "project_manager", exp |-> 1000, sig |-> "forged"]

\* jwt.decode: signature and expiry
jwt_decode_ok(token) == token.sig = "HS256" /\ token.exp >= now

\* a plausible slip: the user row is loaded and its is_active flag is not looked at
get_current_user_IgnoresActive(token) ==
    IF ~jwt_decode_ok(token) \/ token.user_id = None THEN None
    ELSE IF ~\E i \in 1..Len(sessions) :
                /\ sessions[i].user_id = token.user_id
                /\ sessions[i].token = token
                /\ sessions[i].is_active = 1
         THEN None
    ELSE IF token.user_id \notin DOMAIN users THEN None
    ELSE token.user_id

\* the id of the authenticated user, or None for the 401 answers
get_current_user(token) ==
    IF ~jwt_decode_ok(token) \/ token.user_id = None THEN None
    ELSE IF ~\E i \in 1..Len(sessions) :
                /\ sessions[i].user_id = token.user_id
                /\ sessions[i].token = token
                /\ sessions[i].is_active = 1
         THEN None
    ELSE IF token.user_id \notin DOMAIN users THEN None
    ELSE IF ~users[token.user_id].is_active THEN None
    ELSE token.user_id

\* a plausible slip: every role of the enum counts as managerial
is_manager_Everyone(u) == users[u].role \in RoleEnum

is_manager(u) == users[u].role \in ManagerRoles

\* tokens a client can present: every token ever stored in a session row, or a forged one
KnownTokens == {sessions[i].token : i \in 1..Len(sessions)} \cup {ForgedToken}

----------------------------------------------------------------------------
(* Responses *)

\* what the handler answered: its status code and, for the reads, the rows returned;
\* actor is the authenticated user, target the row or user the request named, args the
\* query parameters of a read
Answer(op, code, actor, target, args, body) ==
    [op |-> op, code |-> code, actor |-> actor, target |-> target, args |-> args,
     body |-> body]

Response(op, code, actor, target, body) == Answer(op, code, actor, target, <<>>, body)

Reject401(op) ==
    /\ resp' = Response(op, Unauthorized, None, None, <<>>)
    /\ UNCHANGED <<users, sessions, attendance, nextAid, today, now, inflight>>

----------------------------------------------------------------------------
(* Attendance ledger *)

total_hours(ci, co) == ((co - ci) * SecondsPerTick) \div 3600

\* Attendance(...) as check_in builds it; total_hours takes the column default
CheckInRecord(id, u) ==
    [id |-> id, user_id |-> u, date |-> today, check_in |-> now, check_out |-> None,
     total_hours |-> 0, status |-> "present"]

RecordsFor(u, d) == {r \in attendance : r.user_id = u /\ r.date = d}

ById(id) == {r \in attendance : r.id = id}

Owner(id) == (CHOOSE r \in attendance : r.id = id).user_id

\* a plausible slip: only rows that carry a check_in count as "already checked in"
existing_CheckedInOnly(u) == {r \in RecordsFor(u, today) : r.check_in # None}

\* check_in's query for an existing row of the user for today
existing(u) == RecordsFor(u, today)

check_in(token) ==
    LET u == get_current_user(token) IN
    IF u = None THEN Reject401("check_in")
    ELSE IF existing(u) # {}
    THEN /\ resp' = Response("check_in", BadRequest, u, None, <<>>)
         /\ UNCHANGED <<users, sessions, attendance, nextAid, today, now, inflight>>
    ELSE /\ nextAid <= MaxRecords
         /\ attendance' = attendance \cup {CheckInRecord(nextAid, u)}
         /\ nextAid' = nextAid + 1
         /\ resp' = Response("check_in", OK, u, nextAid, <<>>)
         /\ UNCHANGED <<users, sessions, today, now, inflight>>

\* a plausible slip: check-out closes the user's open row of any day
check_out_AnyDay(token) ==
    LET u == get_current_user(token) IN
    IF u = None THEN Reject401("check_out")
    ELSE LET open == {r \in attendance : r.user_id = u /\ r.check_in # None
                                          /\ r.check_out = None /\ now > r.check_in}
         IN
         IF open = {}
         THEN /\ resp' = Response("check_out", BadRequest, u, None, <<>>)
              /\ UNCHANGED <<users, sessions, attendance, nextAid, today, now, inflight>>
         ELSE \E record \in open :
              /\ attendance' = (attendance \ {record}) \cup
                     {[record EXCEPT !.check_out = now,
                                     !.total_hours = total_hours(record.check_in, now)]}
              /\ resp' = Response("check_out", OK, u, record.id, <<>>)
              /\ UNCHANGED <<users, sessions, nextAid, today, now, inflight>>

\* a plausible slip: a check-out at the very instant of the check-in passes (< for <=)
check_out_SameInstantPasses(token) ==
    LET u == get_current_user(token) IN
    IF u = None THEN Reject401("check_out")
    ELSE \E found \in IF RecordsFor(u, today) = {} THEN {None}
                      ELSE {r.id : r \in RecordsFor(u, today)} :
        LET record == IF found = None THEN [check_in |-> None, check_out |-> None]
                      ELSE CHOOSE r \in attendance : r.id = found
        IN
        IF found = None \/ record.check_in = None
           \/ record.check_out # None
           \/ now < record.check_in
        THEN /\ resp' = Response("check_out", BadRequest, u, found, <<>>)
             /\ UNCHANGED <<users, sessions, attendance, nextAid, today, now, inflight>>
        ELSE /\ attendance' = (attendance \ {record}) \cup
                    {[record EXCEPT !.check_out = now,
                                    !.total_hours = total_hours(record.check_in, now)]}
             /\ resp' = Response("check_out", OK, u, found, <<>>)
             /\ UNCHANGED <<users, sessions, nextAid, today, now, inflight>>

check_out(token) ==
    LET u == get_current_user(token) IN
    IF u = None THEN Reject401("check_out")
    ELSE \E found \in IF RecordsFor(u, today) = {} THEN {None}
                      ELSE {r.id : r \in RecordsFor(u, today)} :
        LET record == IF found = None THEN [check_in |-> None, check_out |-> None]
                      ELSE CHOOSE r \in attendance : r.id = found
        IN
        IF found = None \/ record.check_in = None
           \/ record.check_out # None
           \/ now <= record.check_in
        THEN /\ resp' = Response("check_out", BadRequest, u, found, <<>>)
             /\ UNCHANGED <<users, sessions, attendance, nextAid, today, now, inflight>>
        ELSE /\ attendance' = (attendance \ {record}) \cup
                    {[record EXCEPT !.check_out = now,
                                    !.total_hours = total_hours(record.check_in, now)]}
             /\ resp' = Response("check_out", OK, u, found, <<>>)
             /\ UNCHANGED <<users, sessions, nextAid, today, now, inflight>>

\* AttendanceCreate / AttendanceUpdate payloads
Payload(user_id, date, ci, co, status) ==
    [user_id |-> user_id, date |-> date, check_in |-> ci, check_out |-> co, status |-> status]

Fail(op, code, u, target) ==
    /\ resp' = Response(op, code, u, target, <<>>)
    /\ UNCHANGED <<users, sessions, attendance, nextAid, today, now, inflight>>

\* Attendance(...) as create_attendance builds it, total_hours set when both
\* timestamps are given
NewRecord(id, target_user_id, target_date, payload) ==
    [id |-> id, user_id |-> target_user_id, date |-> target_date,
     check_in |-> payload.check_in, check_out |-> payload.check_out,
     total_hours |-> IF payload.check_in # None /\ payload.check_out # None
                     THEN total_hours(payload.check_in, payload.check_out) ELSE 0,
     status |-> IF payload.status = NoStatus THEN "present" ELSE payload.status]

create_attendance(token, payload) ==
    LET u == get_current_user(token) IN
    IF u = None THEN Reject401("create_attendance")
    ELSE
      LET target_user_id == IF payload.user_id \in {None, 0} THEN u ELSE payload.user_id
          target_date == IF payload.date = None THEN today ELSE payload.date
          record == NewRecord(nextAid, target_user_id, target_date, payload)
      IN
      IF payload.user_id \notin {None, 0} /\ ~is_manager(u)
      THEN Fail("create_attendance", Forbidden, u, None)
      ELSE IF RecordsFor(target_user_id, target_date) # {}
      THEN Fail("create_attendance", BadRequest, u, None)
      ELSE IF record.check_in # None /\ record.check_out # None
              /\ record.check_out <= record.check_in
      THEN Fail("create_attendance", BadRequest, u, None)
      ELSE IF target_user_id \notin DOMAIN users
      THEN Fail("create_attendance", ServerError, u, None)
      ELSE /\ nextAid <= MaxRecords
           /\ attendance' = attendance \cup {record}
           /\ nextAid' = nextAid + 1
           /\ resp' = Response("create_attendance", 201, u, nextAid, <<>>)
           /\ UNCHANGED <<users, sessions, today, now, inflight>>

\* a plausible slip: the date is changed without looking for another row on it
duplicate_NoQuery(record, date) == {}

\* update_attendance's query for another row of the same user on the new date
duplicate(record, date) == {d \in RecordsFor(record.user_id, date) : d.id # record.id}

\* the row after the field assignments of update_attendance
Assigned(record, payload) ==
    [record EXCEPT
        !.date = IF payload.date # None THEN payload.date ELSE @,
        !.check_in = IF payload.check_in # None THEN payload.check_in ELSE @,
        !.check_out = IF payload.check_out # None THEN payload.check_out ELSE @,
        !.status = IF payload.status # NoStatus THEN payload.status ELSE @]

\* a plausible slip: total_hours recomputed only when the request carries both timestamps
Updated_RecomputeOnlyIfBothSent(record, payload) ==
    LET r1 == Assigned(record, payload)
    IN IF payload.check_in # None /\ payload.check_out # None
       THEN [r1 EXCEPT !.total_hours = total_hours(r1.check_in, r1.check_out)]
       ELSE r1

Updated(record, payload) ==
    LET r1 == Assigned(record, payload)
    IN IF r1.check_in # None /\ r1.check_out # None
       THEN [r1 EXCEPT !.total_hours = total_hours(r1.check_in, r1.check_out)]
       ELSE r1

update_attendance(token, attendance_id, payload) ==
    LET u == get_current_user(token) IN
    IF u = None THEN Reject401("update_attendance")
    ELSE IF ById(attendance_id) = {}
    THEN Fail("update_attendance", NotFound, u, attendance_id)
    ELSE IF ~is_manager(u)
    THEN Fail("update_attendance", Forbidden, u, attendance_id)
    ELSE
      LET record == CHOOSE r \in attendance : r.id = attendance_id
          after == Updated(record, payload)
      IN
      IF payload.date # None /\ duplicate(record, payload.date) # {}
      THEN Fail("update_attendance", BadRequest, u, attendance_id)
      ELSE IF after.check_in # None /\ after.check_out # None
              /\ after.check_out <= after.check_in
      THEN Fail("update_attendance", BadRequest, u, attendance_id)
      ELSE /\ attendance' = (attendance \ {record}) \cup {after}
           /\ resp' = Response("update_attendance", OK, u, attendance_id, <<>>)
           /\ UNCHANGED <<users, sessions, nextAid, today, now, inflight>>

delete_attendance(token, attendance_id) ==
    LET u == get_current_user(token) IN
    IF u = None THEN Reject401("delete_attendance")
    ELSE IF ById(attendance_id) = {}
    THEN Fail("delete_attendance", NotFound, u, attendance_id)
    ELSE IF ~is_manager(u)
    THEN Fail("delete_attendance", Forbidden, u, attendance_id)
    ELSE /\ attendance' = attendance \ ById(attendance_id)
         /\ resp' = Response("delete_attendance", 204, u, attendance_id, <<>>)
         /\ UNCHANGED <<users, sessions, nextAid, today, now, inflight>>


----------------------------------------------------------------------------
(* Interleaved requests: each worker runs its existence query, and commits its
   insert in a later step; other workers' steps may come in between *)

Idle == [op |-> "idle"]

\* db.add + db.commit of a new attendance row under the table's constraints
InsertAttendance(p, op, u, record) ==
    IF UniqueUserDate /\ RecordsFor(record.user_id, record.date) # {}
    THEN /\ resp' = Response(op, ServerError, u, None, <<>>)
         /\ inflight' = [inflight EXCEPT ![p] = Idle]
         /\ UNCHANGED <<users, sessions, attendance, nextAid, today, now>>
    ELSE /\ nextAid <= MaxRecords
         /\ attendance' = attendance \cup {[record EXCEPT !.id = nextAid]}
         /\ nextAid' = nextAid + 1
         /\ resp' = Response(op, IF op = "check_in" THEN OK ELSE 201, u, nextAid, <<>>)
         /\ inflight' = [inflight EXCEPT ![p] = Idle]
         /\ UNCHANGED <<users, sessions, today, now>>

check_in_query(p, token) ==
    /\ inflight[p] = Idle
    /\ LET u == get_current_user(token) IN
       IF u = None THEN Reject401("check_in")
       ELSE IF existing(u) # {}
       THEN Fail("check_in", BadRequest, u, None)
       ELSE /\ inflight' = [inflight EXCEPT ![p] = [op |-> "check_in", actor |-> u,
                                                     date |-> today]]
            /\ resp' = Response("check_in_query", OK, u, None, <<>>)
            /\ UNCHANGED <<users, sessions, attendance, nextAid, today, now>>

check_in_commit(p) ==
    /\ inflight[p].op = "check_in"
    /\ InsertAttendance(p, "check_in", inflight[p].actor,
          [CheckInRecord(nextAid, inflight[p].actor) EXCEPT !.date = inflight[p].date])

create_attendance_query(p, token, payload) ==
    /\ inflight[p] = Idle
    /\ LET u == get_current_user(token) IN
       IF u = None THEN Reject401("create_attendance")
       ELSE
         LET target_user_id == IF payload.user_id \in {None, 0} THEN u ELSE payload.user_id
             target_date == IF payload.date = None THEN today ELSE payload.date
         IN
         IF payload.user_id \notin {None, 0} /\ ~is_manager(u)
         THEN Fail("create_attendance", Forbidden, u, None)
         ELSE IF RecordsFor(target_user_id, target_date) # {}
         THEN Fail("create_attendance", BadRequest, u, None)
         ELSE IF payload.check_in # None /\ payload.check_out # None
                 /\ payload.check_out <= payload.check_in
         THEN Fail("create_attendance", BadRequest, u, None)
         ELSE IF target_user_id \notin DOMAIN users
         THEN Fail("create_attendance", ServerError, u, None)
         ELSE /\ inflight' = [inflight EXCEPT ![p] =
                    [op |-> "create_attendance", actor |-> u,
                     record |-> NewRecord(nextAid, target_user_id, target_date, payload)]]
              /\ resp' = Response("create_attendance_query", OK, u, None, <<>>)
              /\ UNCHANGED <<users, sessions, attendance, nextAid, today, now>>

create_attendance_commit(p) ==
    /\ inflight[p].op = "create_attendance"
    /\ InsertAttendance(p, "create_attendance", inflight[p].actor, inflight[p].record)

----------------------------------------------------------------------------
(* Reads of the ledger *)

\* a plausible slip: today's rows are corrected too (<= for <)
compute_display_status_PastOrToday(record, day) ==
    IF record.date <= day
    THEN IF record.check_in = None THEN "absent"
         ELSE IF record.check_out = None THEN "half_day"
         ELSE record.status
    ELSE record.status

compute_display_status(record, day) ==
    IF record.date < day
    THEN IF record.check_in = None THEN "absent"
         ELSE IF record.check_out = None THEN "half_day"
         ELSE record.status
    ELSE record.status

\* the status get_attendance_history computes in its own loop
history_status(r, day) ==
    IF r.date < day
    THEN IF r.check_in = None THEN "absent"
         ELSE IF r.check_out = None THEN "half_day"
         ELSE r.status
    ELSE r.status

\* order_by(Attendance.date); rows of equal date come in id order
RECURSIVE OrderByDate(_, _)
OrderByDate(S, asc) ==
    IF S = {} THEN <<>>
    ELSE LET first == CHOOSE r \in S : \A q \in S :
                        \/ r = q
                        \/ IF asc THEN r.date < q.date ELSE r.date > q.date
                        \/ (r.date = q.date /\ r.id < q.id)
         IN <<first>> \o OrderByDate(S \ {first}, asc)

\* q.offset(offset).limit(limit).all()
Page(rows, offset, limit) ==
    SubSeq(rows, offset + 1, IF offset + limit < Len(rows) THEN offset + limit ELSE Len(rows))

HistoryRows(u, limit, offset) ==
    LET records == Page(OrderByDate({r \in attendance : r.user_id = u}, FALSE), offset, limit)
    IN [i \in 1..Len(records) |->
          [records[i] EXCEPT !.status = history_status(records[i], today)]]

\* a plausible slip: the corrected status is stored when the history is read
get_attendance_history_WriteBack(token, limit, offset) ==
    LET u == get_current_user(token) IN
    IF u = None THEN Reject401("get_attendance_history")
    ELSE /\ resp' = Answer("get_attendance_history", OK, u, None, <<limit, offset>>,
                           HistoryRows(u, limit, offset))
         /\ attendance' = {IF r.user_id = u
                           THEN [r EXCEPT !.status = history_status(r, today)]
                           ELSE r : r \in attendance}
         /\ UNCHANGED <<users, sessions, nextAid, today, now, inflight>>

get_attendance_history(token, limit, offset) ==
    LET u == get_current_user(token) IN
    IF u = None THEN Reject401("get_attendance_history")
    ELSE /\ resp' = Answer("get_attendance_history", OK, u, None, <<limit, offset>>,
                           HistoryRows(u, limit, offset))
         /\ UNCHANGED <<users, sessions, attendance, nextAid, today, now, inflight>>

ListArgs(user_id, start_date, end_date, status_filter, limit, offset, asc) ==
    [user_id |-> user_id, start_date |-> start_date, end_date |-> end_date,
     status_filter |-> status_filter, limit |-> limit, offset |-> offset, asc |-> asc]

\* a plausible slip: the filter compares the status the response will show
ListQuery_ByDisplayed(u, a) ==
    {r \in attendance :
        /\ r.user_id = (IF a.user_id # None THEN a.user_id ELSE u)
        /\ (a.start_date # None => r.date >= a.start_date)
        /\ (a.end_date # None => r.date <= a.end_date)
        /\ (a.status_filter # NoStatus =>
              compute_display_status(r, today) = a.status_filter)}

ListQuery(u, a) ==
    {r \in attendance :
        /\ r.user_id = (IF a.user_id # None THEN a.user_id ELSE u)
        /\ (a.start_date # None => r.date >= a.start_date)
        /\ (a.end_date # None => r.date <= a.end_date)
        /\ (a.status_filter # NoStatus => r.status = a.status_filter)}

ListRows(u, a) ==
    LET records == Page(OrderByDate(ListQuery(u, a), a.asc), a.offset, a.limit)
    IN [i \in 1..Len(records) |->
          [records[i] EXCEPT !.status = compute_display_status(records[i], today)]]

list_attendance(token, a) ==
    LET u == get_current_user(token) IN
    IF u = None THEN Reject401("list_attendance")
    ELSE IF a.user_id # None /\ ~is_manager(u) /\ a.user_id # u
    THEN /\ resp' = Answer("list_attendance", Forbidden, u, a.user_id, a, <<>>)
         /\ UNCHANGED <<users, sessions, attendance, nextAid, today, now, inflight>>
    ELSE /\ resp' = Answer("list_attendance", OK, u, a.user_id, a, ListRows(u, a))
         /\ UNCHANGED <<users, sessions, attendance, nextAid, today, now, inflight>>

GetRows(attendance_id) ==
    LET record == CHOOSE r \in attendance : r.id = attendance_id
    IN <<[record EXCEPT !.status = compute_display_status(record, today)]>>

get_attendance(token, attendance_id) ==
    LET u == get_current_user(token) IN
    IF u = None THEN Reject401("get_attendance")
    ELSE IF ById(attendance_id) = {}
    THEN Fail("get_attendance", NotFound, u, attendance_id)
    ELSE IF ~is_manager(u) /\ Owner(attendance_id) # u
    THEN Fail("get_attendance", Forbidden, u, attendance_id)
    ELSE /\ resp' = Answer("get_attendance", OK, u, attendance_id, <<>>,
                           GetRows(attendance_id))
         /\ UNCHANGED <<users, sessions, attendance, nextAid, today, now, inflight>>

----------------------------------------------------------------------------
(* User directory *)

\* pwd_context.hash and pwd_context.verify; the requests that make a row carry the
\* number of the email as the password
pwd_hash(password) == [bcrypt |-> password]

pwd_verify(password, hash) == hash = pwd_hash(password)

\* the columns of users the handlers read or write; joined_date stands for the
\* profile columns (picture, date_of_birth, joined_date), absent in the requests
\* that make a row
UserRow(email, role, manager_id, active) ==
    [email |-> email, role |-> role, manager_id |-> manager_id, is_active |-> active,
     joined_date |-> None, password_hash |-> pwd_hash(email)]

\* RegisterRequest, UserCreate and UserUpdate: is_active is None, 0 (false) or 1 (true)
UserPayload(email, role, manager_id, active) ==
    [email |-> email, role |-> role, manager_id |-> manager_id, is_active |-> active]

EmailTaken(email) == \E i \in DOMAIN users : users[i].email = email

FailUser(op, code, u, target) ==
    /\ resp' = Response(op, code, u, target, <<>>)
    /\ UNCHANGED <<users, sessions, attendance, nextAid, today, now, inflight>>

\* db.add + db.commit of a new users row: the id comes from the sequence, and the
\* unique index on email and the manager_id foreign key are checked against the
\* table with the new row in it
InsertUser(op, u, row) ==
    LET id == Len(users) + 1 IN
    IF \/ UniqueEmail /\ EmailTaken(row.email)
       \/ /\ ManagerForeignKey
          /\ row.manager_id # None
          /\ row.manager_id \notin (DOMAIN users \cup {id})
    THEN FailUser(op, ServerError, u, None)
    ELSE /\ Len(users) < MaxUsers
         /\ users' = Append(users, row)
         /\ resp' = Response(op, IF op = "register_user" THEN OK ELSE 201, u, id, <<>>)
         /\ UNCHANGED <<sessions, attendance, nextAid, today, now, inflight>>

register_user(request) ==
    IF EmailTaken(request.email) THEN FailUser("register_user", BadRequest, None, None)
    ELSE IF request.role \notin RoleEnum
    THEN FailUser("register_user", BadRequest, None, None)
    ELSE InsertUser("register_user", None,
            UserRow(request.email, request.role, request.manager_id,
                    IF request.is_active = None THEN TRUE ELSE request.is_active = 1))

\* a plausible slip: the dependency trusts the role the token was signed with
role_required_TokenRole(token) ==
    LET u == get_current_user(token) IN
    IF u = None THEN Unauthorized
    ELSE IF token.role \notin ManagerRoles THEN Forbidden
    ELSE OK

\* a plausible slip: the dependency authenticates and lets every role through
role_required_AnyRole(token) ==
    IF get_current_user(token) = None THEN Unauthorized ELSE OK

\* role_required(project_manager, supervisor) on top of get_current_user:
\* the status code the dependency answers with, OK when the request goes on
role_required(token) ==
    LET u == get_current_user(token) IN
    IF u = None THEN Unauthorized
    ELSE IF users[u].role \notin ManagerRoles THEN Forbidden
    ELSE OK

Gate(op, token) ==
    /\ resp' = Response(op, role_required(token), get_current_user(token), None, <<>>)
    /\ UNCHANGED <<users, sessions, attendance, nextAid, today, now, inflight>>

\* a plausible slip: the team reaches down through the manager's reports
is_in_team_Transitive(manager, employee) ==
    \/ users[employee].manager_id = manager
    \/ /\ users[employee].manager_id \in DOMAIN users
       /\ users[users[employee].manager_id].manager_id = manager

is_in_team(manager, employee) == users[employee].manager_id = manager

create_user(token, payload) ==
    IF role_required(token) # OK THEN Gate("create_user", token)
    ELSE
      LET u == get_current_user(token)
          target_manager_id == IF payload.manager_id \in {None, 0} THEN u
                               ELSE payload.manager_id
      IN
      IF target_manager_id \notin DOMAIN users
         \/ users[target_manager_id].role \notin ManagerRoles
      THEN FailUser("create_user", BadRequest, u, None)
      ELSE IF EmailTaken(payload.email) THEN FailUser("create_user", BadRequest, u, None)
      ELSE IF payload.role \notin RoleEnum THEN FailUser("create_user", BadRequest, u, None)
      ELSE InsertUser("create_user", u,
              UserRow(payload.email, payload.role, target_manager_id,
                      IF payload.is_active = None THEN TRUE ELSE payload.is_active = 1))

\* update_user_with_validation: the status code, and the row the commit would store
UpdateError(acting_user_id, user_id, payload) ==
    \/ /\ payload.email # None
       /\ \E i \in DOMAIN users : users[i].email = payload.email /\ i # user_id
    \/ payload.role # NoRole /\ payload.role \notin RoleEnum
    \/ /\ payload.manager_id # None
       /\ \/ payload.manager_id = user_id
          \/ payload.manager_id \notin DOMAIN users
          \/ users[payload.manager_id].role \notin ManagerRoles
    \/ payload.is_active = 0 /\ user_id = acting_user_id

UpdatedUser(user, payload) ==
    [user EXCEPT
        !.email = IF payload.email # None THEN payload.email ELSE @,
        !.role = IF payload.role # NoRole THEN payload.role ELSE @,
        !.manager_id = IF payload.manager_id # None THEN payload.manager_id ELSE @,
        !.is_active = IF payload.is_active # None THEN payload.is_active = 1 ELSE @]

update_user(token, user_id, payload) ==
    IF role_required(token) # OK THEN Gate("update_user", token)
    ELSE
      LET u == get_current_user(token) IN
      IF user_id \notin DOMAIN users THEN FailUser("update_user", NotFound, u, user_id)
      ELSE IF ~is_in_team(u, user_id) THEN FailUser("update_user", Forbidden, u, user_id)
      ELSE IF UpdateError(u, user_id, payload)
      THEN FailUser("update_user", BadRequest, u, user_id)
      ELSE /\ users' = [users EXCEPT ![user_id] = UpdatedUser(@, payload)]
           /\ resp' = Response("update_user", OK, u, user_id, <<>>)
           /\ UNCHANGED <<sessions, attendance, nextAid, today, now, inflight>>

\* the checks of the assign_manager service, in its order
AssignError(employee_id, manager_id) ==
    \/ manager_id \notin DOMAIN users
    \/ users[manager_id].role \notin ManagerRoles
    \/ manager_id = employee_id

assign_manager(token, user_id, manager_id) ==
    IF role_required(token) # OK THEN Gate("assign_manager", token)
    ELSE
      LET u == get_current_user(token) IN
      IF user_id \notin DOMAIN users THEN FailUser("assign_manager", NotFound, u, user_id)
      ELSE IF ~is_in_team(u, user_id)
      THEN FailUser("assign_manager", Forbidden, u, user_id)
      ELSE IF AssignError(user_id, manager_id)
      THEN FailUser("assign_manager", BadRequest, u, user_id)
      ELSE /\ users' = [users EXCEPT ![user_id].manager_id = manager_id]
           /\ resp' = Response("assign_manager", OK, u, user_id, <<>>)
           /\ UNCHANGED <<sessions, attendance, nextAid, today, now, inflight>>

\* a plausible slip: deactivating a user ends the user's sessions
SetActive_EndsSessions(op, token, user_id, active) ==
    IF role_required(token) # OK THEN Gate(op, token)
    ELSE
      LET u == get_current_user(token) IN
      IF user_id \notin DOMAIN users THEN FailUser(op, NotFound, u, user_id)
      ELSE IF ~is_in_team(u, user_id) THEN FailUser(op, Forbidden, u, user_id)
      ELSE IF users[user_id].is_active = active
      THEN /\ resp' = Response(op, OK, u, user_id, <<"already">>)
           /\ UNCHANGED <<users, sessions, attendance, nextAid, today, now, inflight>>
      ELSE IF user_id = u /\ ~active THEN FailUser(op, BadRequest, u, user_id)
      ELSE /\ users' = [users EXCEPT ![user_id].is_active = active]
           /\ sessions' = [i \in 1..Len(sessions) |->
                              IF sessions[i].user_id = user_id /\ ~active
                              THEN [sessions[i] EXCEPT !.is_active = 0] ELSE sessions[i]]
           /\ resp' = Response(op, OK, u, user_id, <<>>)
           /\ UNCHANGED <<attendance, nextAid, today, now, inflight>>

\* set_active_status as deactivate_user (active = FALSE) and activate_user call it
SetActive(op, token, user_id, active) ==
    IF role_required(token) # OK THEN Gate(op, token)
    ELSE
      LET u == get_current_user(token) IN
      IF user_id \notin DOMAIN users THEN FailUser(op, NotFound, u, user_id)
      ELSE IF ~is_in_team(u, user_id) THEN FailUser(op, Forbidden, u, user_id)
      ELSE IF users[user_id].is_active = active
      THEN /\ resp' = Response(op, OK, u, user_id, <<"already">>)
           /\ UNCHANGED <<users, sessions, attendance, nextAid, today, now, inflight>>
      ELSE IF user_id = u /\ ~active THEN FailUser(op, BadRequest, u, user_id)
      ELSE /\ users' = [users EXCEPT ![user_id].is_active = active]
           /\ resp' = Response(op, OK, u, user_id, <<>>)
           /\ UNCHANGED <<sessions, attendance, nextAid, today, now, inflight>>

deactivate_user(token, user_id) == SetActive("deactivate_user", token, user_id, FALSE)

activate_user(token, user_id) == SetActive("activate_user", token, user_id, TRUE)

\* the response dict the user routes build from a row
UserOut(id) ==
    [id |-> id, email |-> users[id].email, role |-> users[id].role,
     manager_id |-> users[id].manager_id, is_active |-> users[id].is_active,
     joined_date |-> users[id].joined_date]

\* update_user_profile: role gate, 404, team gate, then the service sets the
\* profile columns the payload carries
update_user_profile(token, user_id, joined_date) ==
    IF role_required(token) # OK THEN Gate("update_user_profile", token)
    ELSE
      LET u == get_current_user(token) IN
      IF user_id \notin DOMAIN users
      THEN FailUser("update_user_profile", NotFound, u, user_id)
      ELSE IF ~is_in_team(u, user_id)
      THEN FailUser("update_user_profile", Forbidden, u, user_id)
      ELSE /\ users' = [users EXCEPT ![user_id].joined_date =
                            IF joined_date # None THEN joined_date ELSE @]
           /\ resp' = Response("update_user_profile", OK, u, user_id, <<>>)
           /\ UNCHANGED <<sessions, attendance, nextAid, today, now, inflight>>

\* get_user through get_user_for_manager: ValueError is 404, PermissionError 403
get_user(token, user_id) ==
    IF role_required(token) # OK THEN Gate("get_user", token)
    ELSE
      LET u == get_current_user(token) IN
      IF user_id \notin DOMAIN users THEN FailUser("get_user", NotFound, u, user_id)
      ELSE IF users[user_id].manager_id # u
      THEN FailUser("get_user", Forbidden, u, user_id)
      ELSE /\ resp' = Response("get_user", OK, u, user_id, <<UserOut(user_id)>>)
           /\ UNCHANGED <<users, sessions, attendance, nextAid, today, now, inflight>>

\* the orders in which a query without ORDER BY may return the rows of S
AnyOrder(S) ==
    {q \in [1..Cardinality(S) -> S] : \A x \in S : \E i \in 1..Cardinality(S) : q[i] = x}

\* list_users through list_users_for_manager, and list_my_team through list_team
\* (which keeps the inactive rows): the rows whose manager_id is the caller's id
ListUsers(op, token, include_inactive) ==
    IF role_required(token) # OK THEN Gate(op, token)
    ELSE
      LET u == get_current_user(token)
          q == {i \in DOMAIN users :
                  /\ users[i].manager_id = u
                  /\ (~include_inactive => users[i].is_active)}
      IN \E rows \in AnyOrder(q) :
           /\ resp' = Answer(op, OK, u, None, <<include_inactive>>,
                             [i \in 1..Len(Page(rows, 0, DefaultLimit)) |-> UserOut(rows[i])])
           /\ UNCHANGED <<users, sessions, attendance, nextAid, today, now, inflight>>

list_users(token, include_inactive) == ListUsers("list_users", token, include_inactive)

list_my_team(token) == ListUsers("list_my_team", token, TRUE)

----------------------------------------------------------------------------
(* Sessions *)

\* UserSession(...) as login builds it; login_time takes the column default
SessionRow(u, token, clock) ==
    [user_id |-> u, token |-> token, is_active |-> 1, login_time |-> clock]

FailAuth(op, code, u, target) ==
    /\ resp' = Response(op, code, u, target, <<>>)
    /\ UNCHANGED <<users, sessions, attendance, nextAid, today, now, inflight>>

\* the 401 of get_current_user, as the session routes answer it: args keeps the
\* token that was presented
RejectToken(op, token) ==
    /\ resp' = Answer(op, Unauthorized, None, None, <<token>>, <<>>)
    /\ UNCHANGED <<users, sessions, attendance, nextAid, today, now, inflight>>

\* the users row login's query for the email returns, None when there is none
UserByEmail(email) ==
    IF \E i \in DOMAIN users : users[i].email = email
    THEN CHOOSE i \in DOMAIN users : users[i].email = email
    ELSE None

\* a plausible slip: a login takes over a logged-out row of the user when there is one
login_ReusesRow(email, password) ==
    LET user == UserByEmail(email) IN
    IF user = None THEN FailAuth("login", Unauthorized, None, None)
    ELSE IF ~users[user].is_active THEN FailAuth("login", Forbidden, None, user)
    ELSE IF ~pwd_verify(password, users[user].password_hash)
    THEN FailAuth("login", Unauthorized, None, user)
    ELSE LET token == create_access_token(user, now)
             old == {i \in 1..Len(sessions) :
                        sessions[i].user_id = user /\ sessions[i].is_active = 0}
         IN
         /\ Len(sessions) < MaxSessions
         /\ sessions' = IF old = {} THEN Append(sessions, SessionRow(user, token, now))
                        ELSE [sessions EXCEPT ![CHOOSE i \in old : TRUE] =
                                                  SessionRow(user, token, now)]
         /\ resp' = Response("login", OK, None, user, <<token>>)
         /\ UNCHANGED <<users, attendance, nextAid, today, now, inflight>>

login(email, password) ==
    LET user == UserByEmail(email) IN
    IF user = None THEN FailAuth("login", Unauthorized, None, None)
    ELSE IF ~users[user].is_active THEN FailAuth("login", Forbidden, None, user)
    ELSE IF ~pwd_verify(password, users[user].password_hash)
    THEN FailAuth("login", Unauthorized, None, user)
    ELSE LET token == create_access_token(user, now) IN
         /\ Len(sessions) < MaxSessions
         /\ sessions' = Append(sessions, SessionRow(user, token, now))
         /\ resp' = Response("login", OK, None, user, <<token>>)
         /\ UNCHANGED <<users, attendance, nextAid, today, now, inflight>>

\* the rows the session query of logout and refresh_token matches; .first() takes
\* one of them, and no ORDER BY says which
ActiveSessions(u, token) ==
    {i \in 1..Len(sessions) :
        /\ sessions[i].user_id = u
        /\ sessions[i].token = token
        /\ sessions[i].is_active = 1}

\* a plausible slip: logout ends every session of the user
logout_EverySession(token) ==
    LET u == get_current_user(token) IN
    IF u = None THEN RejectToken("logout", token)
    ELSE /\ sessions' = [i \in 1..Len(sessions) |->
                            IF sessions[i].user_id = u
                            THEN [sessions[i] EXCEPT !.is_active = 0] ELSE sessions[i]]
         /\ resp' = Answer("logout", 307, u, None, <<token>>, <<>>)
         /\ UNCHANGED <<users, attendance, nextAid, today, now, inflight>>

logout(token) ==
    LET u == get_current_user(token) IN
    IF u = None THEN RejectToken("logout", token)
    ELSE \E i \in ActiveSessions(u, token) :
         /\ sessions' = [sessions EXCEPT ![i].is_active = 0]
         /\ resp' = Answer("logout", 307, u, i, <<token>>, <<>>)
         /\ UNCHANGED <<users, attendance, nextAid, today, now, inflight>>

refresh_token(token) ==
    LET u == get_current_user(token) IN
    IF u = None THEN RejectToken("refresh_token", token)
    ELSE \E i \in ActiveSessions(u, token) :
         LET new_token == create_access_token(u, now) IN
         /\ sessions' = [sessions EXCEPT ![i].token = new_token, ![i].login_time = now]
         /\ resp' = Answer("refresh_token", OK, u, i, <<token>>, <<new_token>>)
         /\ UNCHANGED <<users, attendance, nextAid, today, now, inflight>>

\* GET /auth/me, a protected operation that only reads
get_me(token) ==
    LET u == get_current_user(token) IN
    IF u = None THEN RejectToken("get_me", token)
    ELSE /\ resp' = Answer("get_me", OK, u, u, <<token>>, <<UserOut(u)>>)
         /\ UNCHANGED <<users, sessions, attendance, nextAid, today, now, inflight>>

----------------------------------------------------------------------------
(* Clock *)

Tick ==
    /\ now < MaxNow
    /\ now' = now + 1
    /\ resp' = Response("tick", OK, None, None, <<>>)
    /\ UNCHANGED <<users, sessions, attendance, nextAid, today, inflight>>

Midnight ==
    /\ today < MaxDay
    /\ today' = today + 1
    /\ resp' = Response("midnight", OK, None, None, <<>>)
    /\ UNCHANGED <<users, sessions, attendance, nextAid, now, inflight>>

----------------------------------------------------------------------------
(* Initial states *)

\* a directory with two managers and one employee who reports to manager 1
SeedUsers ==
    <<UserRow(1, "project_manager", None, TRUE),
      UserRow(2, "supervisor", 1, TRUE),
      UserRow(3, "driver", 1, TRUE)>>

SeedToken(u) ==
    [user_id |-> u, role |-> SeedUsers[u].role,
     exp |-> (ExpiresMinutes * 60) \div SecondsPerTick, sig |-> "HS256"]

\* every seeded user logged in once, at clock 0
SeedSessions == [u \in 1..Len(SeedUsers) |-> SessionRow(u, SeedToken(u), 0)]

\* tokens the clients of the seeded directory hold
ActorTokens == {sessions[i].token : i \in 1..Len(sessions)}

AttendanceIds == 1..MaxRecords

OptDates == {None} \cup Dates

OptTimes == {None} \cup 0..MaxTime

\* requests that vary whose record and which day; manual records carry no timestamps
CreatePayloads ==
    {Payload(u, d, None, None, NoStatus) : u \in {None, 3}, d \in OptDates}

UpdatePayloads == {Payload(None, d, None, None, NoStatus) : d \in OptDates}

\* requests that vary the timestamps of the acting user's record for today,
\* sent by one manager and one employee
TimesTokens == {t \in ActorTokens : t.user_id \in {1, 3}}

TimedCreatePayloads ==
    {Payload(None, None, ci, co, NoStatus) : ci \in OptTimes, co \in OptTimes}

TimedUpdatePayloads ==
    {Payload(None, None, ci, co, NoStatus) : ci \in OptTimes, co \in OptTimes}

Init ==
    /\ users = SeedUsers
    /\ sessions = SeedSessions
    /\ attendance = {}
    /\ nextAid = 1
    /\ today = 0
    /\ now = 0
    /\ resp = Response("init", OK, None, None, <<>>)
    /\ inflight = [p \in 1..NumProcs |-> Idle]

Next ==
    \/ Tick
    \/ Midnight
    \/ \E token \in ActorTokens : check_in(token)
    \/ \E token \in ActorTokens : check_out(token)
    \/ \E token \in ActorTokens, payload \in CreatePayloads :
          create_attendance(token, payload)
    \/ \E token \in ActorTokens, id \in AttendanceIds, payload \in UpdatePayloads :
          update_attendance(token, id, payload)
    \/ \E token \in ActorTokens, id \in AttendanceIds : delete_attendance(token, id)

Spec == Init /\ [][Next]_vars

\* reads by every seeded user of a ledger that holds rows of user 3 only: user 3
\* checks in and out, manager 1 enters rows for user 3 by hand
ReadWriters == {t \in ActorTokens : t.user_id = 3}

ReadManagers == {t \in ActorTokens : t.user_id = 1}

ReadCreatePayloads ==
    {Payload(3, d, None, None, st) : d \in OptDates, st \in {NoStatus, "half_day"}}

ReadListArgs ==
    {ListArgs(u, None, e, st, DefaultLimit, 0, FALSE) :
        u \in {None, 1, 3}, e \in {None, 0}, st \in {NoStatus, "present", "half_day"}}

NextRead ==
    \/ Tick
    \/ Midnight
    \/ \E token \in ReadWriters : check_in(token)
    \/ \E token \in ReadWriters : check_out(token)
    \/ \E token \in ReadManagers, payload \in ReadCreatePayloads :
          create_attendance(token, payload)
    \/ \E token \in ActorTokens, offset \in 0..MaxOffset :
          get_attendance_history(token, DefaultLimit, offset)
    \/ \E token \in ActorTokens, a \in ReadListArgs : list_attendance(token, a)
    \/ \E token \in ActorTokens, id \in AttendanceIds : get_attendance(token, id)

SpecRead == Init /\ [][NextRead]_vars

UserIds == 1..MaxUsers

\* requests of user administration: an email that is taken or the next free one,
\* a role of the enum or a string that is none
EmailInputs == {1, Len(users) + 1}

RegisterRequests ==
    {UserPayload(e, r, m, None) :
        e \in EmailInputs, r \in {"driver", "bogus"}, m \in {None} \cup UserIds}

CreateRequests ==
    {UserPayload(e, r, m, None) :
        e \in EmailInputs, r \in {"driver", "bogus"}, m \in {None} \cup UserIds}

UpdateRequests ==
    {UserPayload(None, r, m, None) :
        r \in {NoRole, "driver"}, m \in {None} \cup UserIds}

NextUsers ==
    \/ \E request \in RegisterRequests : register_user(request)
    \/ \E token \in ActorTokens, payload \in CreateRequests : create_user(token, payload)
    \/ \E token \in ActorTokens, id \in UserIds, payload \in UpdateRequests :
          update_user(token, id, payload)
    \/ \E token \in ActorTokens, id \in UserIds, m \in UserIds :
          assign_manager(token, id, m)
    \/ \E token \in ActorTokens, id \in UserIds : deactivate_user(token, id)
    \/ \E token \in ActorTokens, id \in UserIds : activate_user(token, id)

SpecUsers == Init /\ [][NextUsers]_vars

Procs == 1..NumProcs

\* the racing requests are for today, by manager 1 and employee 3
RaceTokens == {t \in ActorTokens : t.user_id \in {1, 3}}

RaceCreatePayloads == {Payload(u, None, None, None, NoStatus) : u \in {None, 3}}

NextRace ==
    \/ Tick
    \/ \E p \in Procs, token \in RaceTokens : check_in_query(p, token)
    \/ \E p \in Procs : check_in_commit(p)
    \/ \E p \in Procs, token \in RaceTokens, payload \in RaceCreatePayloads :
          create_attendance_query(p, token, payload)
    \/ \E p \in Procs : create_attendance_commit(p)

SpecRace == Init /\ [][NextRace]_vars

NextTimes ==
    \/ Tick
    \/ \E token \in TimesTokens : check_in(token)
    \/ \E token \in TimesTokens : check_out(token)
    \/ \E token \in TimesTokens, payload \in TimedCreatePayloads :
          create_attendance(token, payload)
    \/ \E token \in TimesTokens, id \in AttendanceIds, payload \in TimedUpdatePayloads :
          update_attendance(token, id, payload)

SpecTimes == Init /\ [][NextTimes]_vars

\* the manager-only operations as manager 1 and driver 3 send them; driver 3
\* checks in, so that there is a row to update or delete
GateTokens == {t \in ActorTokens : t.user_id \in {1, 3}}

GateWriters == {t \in ActorTokens : t.user_id = 3}

GateCreateRequests == {UserPayload(Len(users) + 1, "driver", None, None)}

GateUpdateRequests ==
    {UserPayload(None, NoRole, None, a) : a \in {None, 0}}

\* targets: a manager, a report of manager 1, and an id that names no user
GateUserIds == {1, 3, MaxUsers}

GateUpdatePayloads == {Payload(None, MaxDay, None, None, NoStatus)}

NextGate ==
    \/ \E token \in GateWriters : check_in(token)
    \/ \E token \in GateTokens, id \in AttendanceIds, payload \in GateUpdatePayloads :
          update_attendance(token, id, payload)
    \/ \E token \in GateTokens, id \in AttendanceIds : delete_attendance(token, id)
    \/ \E token \in GateTokens, payload \in GateCreateRequests :
          create_user(token, payload)
    \/ \E token \in GateTokens, id \in GateUserIds, payload \in GateUpdateRequests :
          update_user(token, id, payload)
    \/ \E token \in GateTokens, id \in GateUserIds : update_user_profile(token, id, 1)
    \/ \E token \in GateTokens, id \in GateUserIds : assign_manager(token, id, 2)
    \/ \E token \in GateTokens, id \in GateUserIds : get_user(token, id)
    \/ \E token \in GateTokens, b \in BOOLEAN : list_users(token, b)
    \/ \E token \in GateTokens : list_my_team(token)
    \/ \E token \in GateTokens, id \in GateUserIds : deactivate_user(token, id)
    \/ \E token \in GateTokens, id \in GateUserIds : activate_user(token, id)

SpecGate == Init /\ [][NextGate]_vars

\* the operations on a target user as the two seeded managers send them: manager 1
\* may hand report 3 over to supervisor 2, who is a report of manager 1
TeamTokens == {t \in ActorTokens : t.user_id \in {1, 2}}

TeamUserIds == 1..Len(SeedUsers)

TeamUpdateRequests ==
    {UserPayload(None, NoRole, m, a) : m \in {None, 1, 2}, a \in {None, 0, 1}}

NextTeam ==
    \/ \E token \in TeamTokens, id \in TeamUserIds, payload \in TeamUpdateRequests :
          update_user(token, id, payload)
    \/ \E token \in TeamTokens, id \in TeamUserIds, d \in {None, 1} :
          update_user_profile(token, id, d)
    \/ \E token \in TeamTokens, id \in TeamUserIds, m \in TeamUserIds :
          assign_manager(token, id, m)
    \/ \E token \in TeamTokens, id \in TeamUserIds : get_user(token, id)
    \/ \E token \in TeamTokens, id \in TeamUserIds : deactivate_user(token, id)
    \/ \E token \in TeamTokens, id \in TeamUserIds : activate_user(token, id)

SpecTeam == Init /\ [][NextTeam]_vars

\* the sessions of employee 3: logins with a right or wrong email and password,
\* logouts, refreshes and a protected read with every token string the server has
\* signed for user 3 or would sign at some clock value, and with a forged one; a
\* string that no session row stores is refused whatever its signature.  Manager 1
\* may deactivate the account and activate it again; a check-in stands for the
\* protected operations that write.
SessionUser == Len(SeedUsers)

SessionTokens == {create_access_token(SessionUser, c) : c \in 0..MaxNow} \cup {ForgedToken}

SessionManagers == {t \in ActorTokens : t.user_id = 1}

\* 0 is the email of no user and the password of none
LoginInputs == {0, SessionUser}

NextSessions ==
    \/ Tick
    \/ \E email \in LoginInputs, password \in LoginInputs : login(email, password)
    \/ \E token \in SessionTokens : logout(token)
    \/ \E token \in SessionTokens : refresh_token(token)
    \/ \E token \in SessionTokens : get_me(token)
    \/ \E token \in SessionManagers : deactivate_user(token, SessionUser)
    \/ \E token \in SessionManagers : activate_user(token, SessionUser)
    \/ \E token \in SessionTokens : check_in(token)

SpecSessions == Init /\ [][NextSessions]_vars

\* every attendance operation as driver 3 sends it, aimed at the driver's own rows
\* and at the rows manager 1 makes by checking in
SelfTokens == {t \in ActorTokens : t.user_id = SessionUser}

SelfOthers == {t \in ActorTokens : t.user_id = 1}

SelfTargets == {None, 1, SessionUser}

NextSelf ==
    \/ Tick
    \/ \E token \in SelfTokens \cup SelfOthers : check_in(token)
    \/ \E token \in SelfTokens : check_out(token)
    \/ \E token \in SelfTokens : get_attendance_history(token, DefaultLimit, 0)
    \/ \E token \in SelfTokens, u \in SelfTargets :
          list_attendance(token, ListArgs(u, None, None, NoStatus, DefaultLimit, 0, FALSE))
    \/ \E token \in SelfTokens, id \in AttendanceIds : get_attendance(token, id)
    \/ \E token \in SelfTokens, u \in SelfTargets, d \in OptDates :
          create_attendance(token, Payload(u, d, None, None, NoStatus))
    \/ \E token \in SelfTokens, id \in AttendanceIds, payload \in UpdatePayloads :
          update_attendance(token, id, payload)
    \/ \E token \in SelfTokens, id \in AttendanceIds : delete_attendance(token, id)

SpecSelf == Init /\ [][NextSelf]_vars

\* manager 1 changes the stored roles of supervisor 2 and driver 3 and moves each
\* into the other's team; 2 and 3 send manager-only requests with the tokens of
\* their first login.  Driver 3 checks in, so that there is a row to update or delete.
RoleChangers == {t \in ActorTokens : t.user_id = 1}

RoleChanged == {t \in ActorTokens : t.user_id \in {2, SessionUser}}

RoleTargets == {2, SessionUser}

RoleRequests == {UserPayload(None, r, None, None) : r \in {"driver", "supervisor"}}

NextRoles ==
    \/ \E token \in RoleChangers, id \in RoleTargets, payload \in RoleRequests :
          update_user(token, id, payload)
    \/ \E token \in RoleChangers, id \in RoleTargets, m \in RoleTargets :
          assign_manager(token, id, m)
    \/ \E token \in RoleChanged, id \in RoleTargets : get_user(token, id)
    \/ \E token \in RoleChanged : list_my_team(token)
    \/ \E token \in RoleChanged : check_in(token)
    \/ \E token \in RoleChanged, id \in AttendanceIds : delete_attendance(token, id)

SpecRoles == Init /\ [][NextRoles]_vars

----------------------------------------------------------------------------
(* Claims about the ledger: whose record, which day *)

\* C1: after any sequence of check-in, manual create, manual update (date changes
\* included) and delete requests handled one at a time, no two rows of the ledger
\* share a (user_id, date) pair.
C1_OneRecordPerUserDate ==
    \A r1 \in attendance, r2 \in attendance :
        (r1.user_id = r2.user_id /\ r1.date = r2.date) => r1 = r2

\* a date-changing update was refused because the user already has a row on that day
C1_Witness ==
    /\ resp.op = "update_attendance"
    /\ resp.code = BadRequest
    /\ \E r1 \in attendance, r2 \in attendance :
          r1.id = resp.target /\ r2.id # r1.id /\ r2.user_id = r1.user_id

\* C3: an update or delete by a managerial user M of a row whose owner U (another
\* user) has U.manager_id # M.id answers Forbidden and leaves the ledger as it was.
C3_ForeignManagerForbidden ==
    [][(/\ resp'.op \in {"update_attendance", "delete_attendance"}
        /\ resp'.actor # None
        /\ is_manager(resp'.actor)
        /\ ById(resp'.target) # {}
        /\ Owner(resp'.target) # resp'.actor
        /\ users[Owner(resp'.target)].manager_id # resp'.actor)
       => (resp'.code = Forbidden /\ attendance' = attendance)]_vars

\* C10: a check-in by U on day D answers Conflict (400) and changes nothing when a row
\* for (U, D) exists, with or without a check_in; otherwise it adds exactly one row
\* with user_id U, date D, check_in = now, no check_out and stored status present.
C10_CheckIn ==
    [][(resp'.op = "check_in" /\ resp'.actor # None) =>
        LET u == resp'.actor IN
        IF RecordsFor(u, today) # {}
        THEN resp'.code = BadRequest /\ attendance' = attendance
        ELSE /\ resp'.code = OK
             /\ \E r \in attendance' :
                  /\ r \notin attendance
                  /\ attendance' = attendance \cup {r}
                  /\ r.user_id = u /\ r.date = today /\ r.check_in = now
                  /\ r.check_out = None /\ r.status = "present"]_vars

\* a check-in was refused although the existing row, made by hand, has no check_in
C10_Witness ==
    /\ resp.op = "check_in"
    /\ resp.code = BadRequest
    /\ \E r \in RecordsFor(resp.actor, today) : r.check_in = None

----------------------------------------------------------------------------
(* Claims about the timestamps *)

\* C7: every stored row with both timestamps has check_out > check_in and
\* total_hours = (check_out - check_in) in hours, after any sequence of check-in,
\* check-out, manual create and manual update.
C7_TimesAndHours ==
    \A r \in attendance :
        (r.check_in # None /\ r.check_out # None) =>
            /\ r.check_out > r.check_in
            /\ r.total_hours * 3600 = (r.check_out - r.check_in) * SecondsPerTick

\* an update moved one timestamp of a row that had both, and the hours followed
C7_Witness ==
    /\ resp.op = "update_attendance"
    /\ resp.code = OK
    /\ \E r \in attendance :
          r.id = resp.target /\ r.check_in = 0 /\ r.check_out = 2 /\ r.total_hours = 2

\* C11: a check-out by U on day D answers InvalidOperation (400) and leaves the ledger
\* as it was when U has no row for D with a check_in, when that row has a check_out,
\* or when now <= check_in; in every other case it sets check_out = now and
\* total_hours on U's row for D and changes no other row.
C11_CheckOut ==
    [][(resp'.op = "check_out" /\ resp'.actor # None) =>
        LET open == {r \in RecordsFor(resp'.actor, today) :
                        r.check_in # None /\ r.check_out = None /\ now > r.check_in}
        IN
        IF open = {}
        THEN resp'.code = BadRequest /\ attendance' = attendance
        ELSE /\ resp'.code = OK
             /\ \E r \in open :
                  attendance' = (attendance \ {r}) \cup
                      {[r EXCEPT !.check_out = now,
                                 !.total_hours = ((now - r.check_in) * SecondsPerTick)
                                                     \div 3600]}]_vars

\* a check-out was refused because it came at the instant of the check-in
C11_Witness ==
    /\ resp.op = "check_out"
    /\ resp.code = BadRequest
    /\ \E r \in RecordsFor(resp.actor, today) :
          r.check_in = now /\ r.check_out = None

\* C12: every row is made by its owner's check-in or by a manual create of a
\* managerial user: a manual create sent by a non-managerial user adds no row, not
\* even one for that user's own id.
C12_NonManagerCreatesNothing ==
    [][(/\ resp'.op = "create_attendance"
        /\ resp'.actor # None
        /\ ~is_manager(resp'.actor))
       => attendance' = attendance]_vars

----------------------------------------------------------------------------
(* Claims about the reads *)

ReadOps == {"get_attendance_history", "list_attendance", "get_attendance"}

\* the user whose rows the read recorded in resp asked for
ReadOwner ==
    IF resp.op = "get_attendance"
    THEN IF ById(resp.target) # {} THEN Owner(resp.target) ELSE None
    ELSE resp.target

\* C4: a managerial user M reads another user's rows (get by id, list with user_id)
\* only when that user's manager_id is M.id; a read of the rows of a user who has
\* some and is no direct report of M answers Forbidden and carries no row.
C4_ReadsOnlyOfDirectReports ==
    (/\ resp.op \in {"get_attendance", "list_attendance"}
     /\ resp.actor # None
     /\ is_manager(resp.actor)
     /\ ReadOwner \in DOMAIN users
     /\ ReadOwner # resp.actor
     /\ users[ReadOwner].manager_id # resp.actor
     /\ \E r \in attendance : r.user_id = ReadOwner)
    => (resp.code = Forbidden /\ resp.body = <<>>)

\* the displayed status as the specification words it
C8_Displayed(r, day) ==
    CASE r.date < day /\ r.check_in = None -> "absent"
      [] r.date < day /\ r.check_in # None /\ r.check_out = None -> "half_day"
      [] OTHER -> r.status

\* C8: every row returned by history, list and get-by-id shows absent when the row is
\* dated before today and has no check_in, else half_day when it is dated before today
\* and has no check_out, else the stored status; a row dated today or later always
\* shows its stored status.
C8_DisplayedStatus ==
    (resp.op \in ReadOps /\ resp.code = OK) =>
        \A i \in 1..Len(resp.body) :
            \E r \in attendance :
                /\ r.id = resp.body[i].id
                /\ resp.body[i].status = C8_Displayed(r, today)
                /\ (r.date >= today => resp.body[i].status = r.status)

\* a read showed half_day for a row of an earlier day that is stored as present
C8_Witness ==
    /\ resp.op \in ReadOps
    /\ \E i \in 1..Len(resp.body) : \E r \in attendance :
          /\ r.id = resp.body[i].id
          /\ r.date < today
          /\ r.status = "present"
          /\ resp.body[i].status = "half_day"

\* what the read recorded in resp returns when it is sent again now
ReadAgain ==
    CASE resp.op = "get_attendance_history" ->
            HistoryRows(resp.actor, resp.args[1], resp.args[2])
      [] resp.op = "list_attendance" -> ListRows(resp.actor, resp.args)
      [] resp.op = "get_attendance" -> GetRows(resp.target)

\* C9: history, list and get-by-id leave the ledger as it was, stored statuses
\* included, and the same read sent again with the same today and no mutation in
\* between returns the same rows.
C9_ReadsChangeNothing ==
    /\ [][resp'.op \in ReadOps => attendance' = attendance]_vars
    /\ []((resp.op \in ReadOps /\ resp.code = OK) => resp.body = ReadAgain)

\* a history showed a status that differs from the stored one, which is still stored
C9_Witness ==
    /\ resp.op = "get_attendance_history"
    /\ \E i \in 1..Len(resp.body) : \E r \in attendance :
          r.id = resp.body[i].id /\ r.status # resp.body[i].status

----------------------------------------------------------------------------
(* Claims about interleaved requests *)

\* C2: when two check-ins (or two manual creates) for the same user and day both run
\* their existence query before either inserts, the storage layer's unique constraint
\* refuses the second insert: the ledger never holds more than one row for a
\* (user_id, date) pair.
C2_RacingInsertsKeepOneRecord ==
    \A u \in DOMAIN users, d \in Dates : Cardinality(RecordsFor(u, d)) <= 1

----------------------------------------------------------------------------
(* Claims about the user directory *)

\* C5: in every state reached through registration, manager-side creation, user
\* update and manager assignment, no user is their own manager.
C5_NoSelfManagement ==
    \A i \in DOMAIN users : users[i].manager_id # i

\* C6: in every reachable state, a user's manager_id, when set, names an existing user
\* whose current role is project_manager or supervisor.
C6_ManagerIsManagerial ==
    \A i \in DOMAIN users :
        users[i].manager_id # None =>
            /\ users[i].manager_id \in DOMAIN users
            /\ users[users[i].manager_id].role \in ManagerRoles

\* C27: a row that U checked in on day D and did not check out on day D is never
\* checked out by U afterwards: a check-out on a later day looks at the row of that
\* day only, so no request of a non-manager U changes an open row of U of an
\* earlier day; the row keeps check_out absent and displays as half_day.
C27_NoLateCheckOut ==
    /\ [][\A r \in attendance :
             (/\ r.date < today
              /\ r.check_in # None
              /\ r.check_out = None
              /\ resp'.actor = r.user_id
              /\ users[r.user_id].role \notin ManagerRoles) => r \in attendance']_vars
    /\ [](\A r \in attendance :
             (r.date < today /\ r.check_in # None /\ r.check_out = None) =>
                 compute_display_status(r, today) = "half_day")

\* a check-out on the day after an open check-in was refused, and the row is still open
C27_Witness ==
    /\ resp.op = "check_out"
    /\ resp.code = BadRequest
    /\ users[resp.actor].role \notin ManagerRoles
    /\ \E r \in attendance :
          /\ r.user_id = resp.actor
          /\ r.date < today
          /\ r.check_in # None
          /\ r.check_in < now
          /\ r.check_out = None

\* C28: the status filter of list selects rows by their stored status while the
\* response shows the displayed status: list with status = s returns exactly the
\* rows in scope whose stored status is s, each with its displayed status, so a
\* returned row of an earlier day can show another status than s, and a row that
\* displays s with another stored status is not returned.
C28_FilterByStoredStatus ==
    (/\ resp.op = "list_attendance"
     /\ resp.code = OK
     /\ resp.args.status_filter # NoStatus) =>
        LET a == resp.args
            scope == {r \in attendance :
                        /\ r.user_id = (IF a.user_id # None THEN a.user_id ELSE resp.actor)
                        /\ (a.start_date # None => r.date >= a.start_date)
                        /\ (a.end_date # None => r.date <= a.end_date)}
        IN
        /\ {resp.body[i].id : i \in 1..Len(resp.body)} =
              {r.id : r \in {q \in scope : q.status = a.status_filter}}
        /\ \A i \in 1..Len(resp.body) : \E r \in scope :
              /\ r.id = resp.body[i].id
              /\ resp.body[i].status = C8_Displayed(r, today)

\* a list with status = half_day left out a row that displays half_day and is
\* stored as present
C28_Witness ==
    /\ resp.op = "list_attendance"
    /\ resp.code = OK
    /\ resp.args.status_filter = "half_day"
    /\ \E r \in attendance :
          /\ r.user_id = (IF resp.args.user_id # None THEN resp.args.user_id ELSE resp.actor)
          /\ (resp.args.end_date # None => r.date <= resp.args.end_date)
          /\ r.status = "present"
          /\ C8_Displayed(r, today) = "half_day"
          /\ \A i \in 1..Len(resp.body) : resp.body[i].id # r.id

----------------------------------------------------------------------------
(* Claims about the gates of the manager-only operations *)

ManagerOnlyOps ==
    {"update_attendance", "delete_attendance", "create_user", "update_user",
     "update_user_profile", "assign_manager", "get_user", "list_users", "list_my_team",
     "deactivate_user", "activate_user"}

\* C13: every manager-only operation sent by an authenticated user whose role is
\* neither project_manager nor supervisor answers Forbidden and changes no user,
\* session or attendance row.
C13_AlwaysForbidden ==
    [][(/\ resp'.op \in ManagerOnlyOps
        /\ resp'.actor # None
        /\ ~is_manager(resp'.actor))
       => (/\ resp'.code = Forbidden
           /\ UNCHANGED <<users, sessions, attendance>>)]_vars

\* C13, amended: as above, except that an attendance update or delete whose id names
\* no row answers NotFound; no row changes in either case.
C13_RoleGate ==
    [][(/\ resp'.op \in ManagerOnlyOps
        /\ resp'.actor # None
        /\ ~is_manager(resp'.actor))
       => (/\ resp'.code =
                 IF /\ resp'.op \in {"update_attendance", "delete_attendance"}
                    /\ ById(resp'.target) = {}
                 THEN NotFound ELSE Forbidden
           /\ UNCHANGED <<users, sessions, attendance>>)]_vars

\* a driver's update of a row that exists was refused
C13_Witness ==
    /\ resp.op = "update_attendance"
    /\ resp.code = Forbidden
    /\ resp.actor # None
    /\ ~is_manager(resp.actor)
    /\ ById(resp.target) # {}

TargetOps ==
    {"update_user", "update_user_profile", "assign_manager", "get_user",
     "deactivate_user", "activate_user"}

\* C14: a user-administration operation on an existing target by a managerial user M
\* succeeds only if the target's manager_id is M's id when the request is handled;
\* otherwise it answers Forbidden and the target row stays as it was.  Reports of
\* M's reports are not in M's team.
C14_TeamGate ==
    [][(/\ resp'.op \in TargetOps
        /\ resp'.actor # None
        /\ is_manager(resp'.actor)
        /\ resp'.target \in DOMAIN users
        /\ users[resp'.target].manager_id # resp'.actor)
       => (/\ resp'.code = Forbidden
           /\ users'[resp'.target] = users[resp'.target])]_vars

\* manager 1 was refused on a user whose manager is one of manager 1's reports
C14_Witness ==
    /\ resp.op \in TargetOps
    /\ resp.code = Forbidden
    /\ resp.actor # None
    /\ is_manager(resp.actor)
    /\ resp.target \in DOMAIN users
    /\ users[resp.target].manager_id \in DOMAIN users
    /\ users[users[resp.target].manager_id].manager_id = resp.actor

\* C15: a request by user A that would set is_active = false on A's own account (here
\* the deactivate operation on A's own id, sent by a managerial A) answers
\* InvalidOperation (400) and leaves A.is_active true.
C15_SelfDeactivationInvalid ==
    (/\ resp.op = "deactivate_user"
     /\ resp.actor # None
     /\ resp.target = resp.actor)
    => (resp.code = BadRequest /\ users[resp.actor].is_active)

SetManagerOps == {"assign_manager", "update_user", "create_user", "register_user"}

\* C16: every operation that sets manager_id = m on a user T (assign manager, user
\* update, manager-side create, public registration) fails with InvalidOperation and
\* leaves T.manager_id as it was unless a user m exists, m's role is project_manager or
\* supervisor, and m # T.id: whenever such an operation stores a manager_id, new or
\* changed, that manager_id passes the three tests.
C16_StoredManagerIsValid ==
    [][(/\ resp'.op \in SetManagerOps
        /\ resp'.target \in DOMAIN users'
        /\ users'[resp'.target].manager_id # None
        /\ \/ resp'.target \notin DOMAIN users
           \/ users'[resp'.target].manager_id # users[resp'.target].manager_id)
       => LET m == users'[resp'.target].manager_id IN
          /\ m \in DOMAIN users'
          /\ users'[m].role \in ManagerRoles
          /\ m # resp'.target]_vars

----------------------------------------------------------------------------
(* Claims about login, logout and refresh *)

\* C17: login answers Unauthorized and adds no session row when the email is unknown,
\* the password does not verify, or the account is inactive; for an inactive account
\* the answer is Unauthorized, the kind bad credentials get.
C17_InactiveLoginUnauthorized ==
    (/\ resp.op = "login"
     /\ resp.target \in DOMAIN users
     /\ ~users[resp.target].is_active)
    => resp.code = Unauthorized

\* C18: once a logout with token t has completed for user U, every later protected
\* operation that presents t answers Unauthorized, whatever logins and refreshes came
\* before, two logins that produced the same token string included: the protected
\* read that follows the logout does not succeed with t.
C18_LoggedOutTokenRefused ==
    [][(/\ resp.op = "logout"
        /\ resp.code = 307
        /\ resp'.op = "get_me"
        /\ resp'.code = OK)
       => resp'.args # resp.args]_vars

\* C19: a refresh with a valid token t changes one session row, whose token becomes
\* the new token and whose login_time becomes now, and keeps the number of rows;
\* afterwards the new token is accepted and the old token t is refused with
\* Unauthorized: the protected read that follows a refresh which issued a new string
\* does not succeed with t.
C19_RefreshedTokenRefused ==
    [][(/\ resp.op = "refresh_token"
        /\ resp.code = OK
        /\ resp.body # resp.args
        /\ resp'.op = "get_me"
        /\ resp'.code = OK)
       => resp'.args # resp.args]_vars

\* C20: a successful login adds one active session row and leaves every other row as
\* it was; a logout or refresh on one session leaves every other row, its is_active
\* flag and token included, as it was, so that the tokens of the user's other
\* sessions stay valid.
C20_SessionsIndependent ==
    [][/\ (resp'.op = "login" /\ resp'.code = OK) =>
            \E row \in {sessions'[i] : i \in 1..Len(sessions')} :
                /\ sessions' = Append(sessions, row)
                /\ row.user_id = resp'.target
                /\ row.is_active = 1
       /\ (resp'.op \in {"logout", "refresh_token"} /\ resp'.code \in {OK, 307}) =>
            /\ Len(sessions') = Len(sessions)
            /\ \A j \in 1..Len(sessions) :
                  j # resp'.target =>
                     /\ sessions'[j] = sessions[j]
                     /\ (/\ sessions[j].is_active = 1
                         /\ get_current_user(sessions[j].token) = sessions[j].user_id)
                        => get_current_user(sessions[j].token)' = sessions[j].user_id
      ]_vars

\* user 3 logged out of one session and the token of another session, a different
\* string, is still accepted
C20_Witness ==
    /\ resp.op = "logout"
    /\ resp.code = 307
    /\ \E j \in 1..Len(sessions) :
          /\ j # resp.target
          /\ sessions[j].user_id = resp.actor
          /\ sessions[j].token # resp.args[1]
          /\ get_current_user(sessions[j].token) = resp.actor

\* C21: logout is idempotent: a logout whose token, issued by the server and
\* unexpired, has no matching active session row (a second logout with the same
\* token, say) completes as a no-op without an error and changes no session row.
C21_LogoutIdempotent ==
    [][(/\ resp'.op = "logout"
        /\ jwt_decode_ok(resp'.args[1])
        /\ \E i \in 1..Len(sessions) : sessions[i].token = resp'.args[1]
        /\ ActiveSessions(resp'.args[1].user_id, resp'.args[1]) = {})
       => (resp'.code = 307 /\ sessions' = sessions)]_vars

SessionOps == {"get_me", "logout", "refresh_token"}

\* C22: while user U has is_active = false, every protected operation that presents a
\* token of U answers Unauthorized and changes no state, active session rows of U
\* notwithstanding, and a login for U issues no token: no request is authenticated as
\* an inactive user.
C22_InactiveUserLockedOut ==
    [][/\ (/\ resp'.op \in SessionOps
           /\ resp'.args[1].user_id \in DOMAIN users
           /\ ~users[resp'.args[1].user_id].is_active)
          => (/\ resp'.code = Unauthorized
              /\ UNCHANGED <<users, sessions, attendance, nextAid>>)
       /\ (/\ resp'.op \notin {"init", "tick", "midnight", "login", "register_user"}
           /\ resp'.actor # None)
          => users[resp'.actor].is_active
       /\ (/\ resp'.op = "login"
           /\ resp'.target \in DOMAIN users
           /\ ~users[resp'.target].is_active)
          => (resp'.body = <<>> /\ sessions' = sessions)
      ]_vars

\* a read was refused although an active session row stores the unexpired token:
\* the account is inactive
C22_Witness ==
    /\ resp.op = "get_me"
    /\ resp.code = Unauthorized
    /\ jwt_decode_ok(resp.args[1])
    /\ ActiveSessions(resp.args[1].user_id, resp.args[1]) # {}
    /\ ~users[resp.args[1].user_id].is_active

\* C24: session rows are never deleted and a row's is_active flag only moves from
\* active to inactive: no login, logout, refresh, user deactivation or user
\* activation removes a row or turns an inactive row active again.
C24_SessionsOnlyEnd ==
    [][/\ Len(sessions') >= Len(sessions)
       /\ \A i \in 1..Len(sessions) :
             /\ sessions'[i].user_id = sessions[i].user_id
             /\ (sessions[i].is_active = 0 => sessions'[i].is_active = 0)
      ]_vars

\* a user with a logged-out session row logged in again, and the row is still there
C24_Witness ==
    /\ resp.op = "login"
    /\ resp.code = OK
    /\ \E i \in 1..Len(sessions) :
          sessions[i].user_id = resp.target /\ sessions[i].is_active = 0

\* C25: deactivating and later re-activating user U changes no session row: a token
\* of U that an active session row stores is refused while U is inactive and is
\* accepted again as soon as U is active.
C25_ActivationKeepsSessions ==
    /\ [][resp'.op \in {"deactivate_user", "activate_user"} => sessions' = sessions]_vars
    /\ [](\A i \in 1..Len(sessions) :
             (sessions[i].is_active = 1 /\ jwt_decode_ok(sessions[i].token)) =>
                 (get_current_user(sessions[i].token) = sessions[i].user_id
                    <=> users[sessions[i].user_id].is_active))

\* user 3 was re-activated, and the token of a session from before is accepted
C25_Witness ==
    /\ resp.op = "activate_user"
    /\ resp.code = OK
    /\ resp.body = <<>>
    /\ \E i \in 1..Len(sessions) :
          /\ sessions[i].user_id = resp.target
          /\ sessions[i].login_time = 0
          /\ get_current_user(sessions[i].token) = resp.target

----------------------------------------------------------------------------
(* Claims about whose rows a user reaches *)

AttendanceOps ==
    {"check_in", "check_out", "get_attendance_history", "list_attendance",
     "get_attendance", "create_attendance", "update_attendance", "delete_attendance"}

\* C23: a non-managerial user A never reads, creates, changes or deletes a row whose
\* user_id differs from A.id: the rows an operation of A adds, changes or removes and
\* the rows it returns are A's, and a get, list with user_id, update or delete aimed
\* at another user's row answers Forbidden.
C23_OwnRowsOnly ==
    [][(/\ resp'.op \in AttendanceOps
        /\ resp'.actor # None
        /\ users[resp'.actor].role \notin ManagerRoles)
       => LET A == resp'.actor IN
          /\ \A r \in (attendance' \ attendance) \cup (attendance \ attendance') :
                r.user_id = A
          /\ \A i \in 1..Len(resp'.body) : resp'.body[i].user_id = A
          /\ (/\ resp'.op \in {"get_attendance", "update_attendance", "delete_attendance"}
              /\ ById(resp'.target) # {}
              /\ Owner(resp'.target) # A) => resp'.code = Forbidden
          /\ (resp'.op = "list_attendance" /\ resp'.target \notin {None, A})
                => resp'.code = Forbidden
      ]_vars

\* the driver's get of a row of the manager was refused
C23_Witness ==
    /\ resp.op = "get_attendance"
    /\ resp.code = Forbidden
    /\ ById(resp.target) # {}
    /\ Owner(resp.target) # resp.actor

====
